---------------------------- MODULE Spec2Model ----------------------------
(***************************************************************************)
(* Model of the sysctl-style configuration loader (task1 and task2).       *)
(*                                                                         *)
(* Text is modelled character by character: a string is a sequence of      *)
(* one-character strings, so that splitting, trimming and prefix tests are *)
(* computed the way the Rust code computes them.  A SysctlConfig (a        *)
(* HashMap<String, SysctlConfigValue>) is a function whose domain is the   *)
(* set of its keys; a SysctlConfigValue is a record tagged "String" (field *)
(* s) or "SysctlConfig" (field m).                                         *)
(***************************************************************************)
EXTENDS Integers, Sequences, FiniteSets, TLC

VARIABLES
    pc,       \* position of the caller: "schema", "config" or "done"
    schema,   \* SysctlConfigLoader.schema: sequence of [key, typ]
    map,      \* the SysctlConfig being built by load_sysctl_from_reader
    prev,     \* the map as it was when the last line was handed to insert_entry_of_line
    line,     \* the last line handed to insert_entry_of_line / insert_schema_of_line
    nread,    \* number of lines read from the reader so far
    result,   \* what the caller has received: None, Ok, Err or Panic
    doc,      \* the lines the current load_sysctl call has read, when recorded
    kept,     \* an earlier load_sysctl call on this loader: its document,
              \* the schema list it ran with and what it returned
    ncalls    \* number of load_sysctl calls made on this loader so far

vars == <<pc, schema, map, prev, line, nread, result, doc, kept, ncalls>>

----------------------------------------------------------------------------
(* Bounds of the model *)

MaxLines == 2        \* config lines per document
MaxDepth == 3        \* segments per generated dotted key
MaxSchemaLines == 2  \* schema lines per schema document
MaxCalls == 3        \* load_sysctl calls on one loader
MaxDocLines == 3     \* config lines per recorded document
MaxValLen == 4       \* length of the generated leaf strings of the type check

----------------------------------------------------------------------------
(* Strings: str methods of the Rust standard library used by the code *)

EmptyStr == <<>>

\* char::is_whitespace, restricted to the whitespace characters of the model
IsWhitespace(c) == c \in {" ", "\t"}

RECURSIVE TrimStart(_)
TrimStart(s) ==
    IF s = <<>> THEN s
    ELSE IF IsWhitespace(Head(s)) THEN TrimStart(Tail(s)) ELSE s

RECURSIVE TrimEnd(_)
TrimEnd(s) ==
    IF s = <<>> THEN s
    ELSE IF IsWhitespace(s[Len(s)]) THEN TrimEnd(SubSeq(s, 1, Len(s) - 1)) ELSE s

\* str::trim
Trim(s) == TrimEnd(TrimStart(s))

\* str::starts_with
StartsWith(s, p) == Len(s) >= Len(p) /\ SubSeq(s, 1, Len(p)) = p

\* str::contains(char)
Contains(s, c) == \E i \in 1..Len(s) : s[i] = c

\* str::find: index of the first occurrence of pattern d in s, 0 when absent
Find(s, d) ==
    LET hits == {i \in 1..(Len(s) - Len(d) + 1) : SubSeq(s, i, i + Len(d) - 1) = d}
    IN  IF hits = {} THEN 0 ELSE CHOOSE i \in hits : \A j \in hits : i <= j

\* str::splitn(2, d): at most two parts, split at the first occurrence of d
SplitN2(s, d) ==
    LET i == Find(s, d)
    IN  IF i = 0 THEN <<s>>
        ELSE <<SubSeq(s, 1, i - 1), SubSeq(s, i + Len(d), Len(s))>>

\* (variant: the key is not split at all)
SplitWhole(s, c) == <<s>>

\* str::split('.'): every segment, empty ones included
RECURSIVE Split(_, _)
Split(s, c) ==
    LET i == Find(s, <<c>>)
    IN  IF i = 0 THEN <<s>>
        ELSE <<SubSeq(s, 1, i - 1)>> \o Split(SubSeq(s, i + 1, Len(s)), c)

\* format!("{}.{}", a, b)
Dotted(a, b) == a \o <<".">> \o b

----------------------------------------------------------------------------
(* SysctlConfigValue and SysctlConfig *)

StringValue(s) == [tag |-> "String", s |-> s]
ConfigValue(m) == [tag |-> "SysctlConfig", m |-> m]

\* SysctlConfig::new()
EmptyConfig == <<>>

\* HashMap::insert: the entry of k is set, whatever was there
MapInsert(m, k, v) == [x \in (DOMAIN m) \cup {k} |-> IF x = k THEN v ELSE m[x]]

\* (variant: the entry is replaced by an empty subtree even when present)
InsertEmpty(m, k) == MapInsert(m, k, ConfigValue(EmptyConfig))

\* HashMap::entry(k).or_insert_with(|| SysctlConfig(new())): an absent key gets an
\* empty subtree, a present key is left as it is
OrInsertEmpty(m, k) ==
    IF k \in DOMAIN m THEN m ELSE MapInsert(m, k, ConfigValue(EmptyConfig))

----------------------------------------------------------------------------
(* insert_entry_of_line: the walk over the segments of the key *)

\* The loop `for i in 0..keys.len()`: the map is mutated in place, so what the
\* walk did before a failure stays in the map.  Returns the map and whether
\* the loop returned through error_or_ignore.
RECURSIVE InsertWalk(_, _, _)
InsertWalk(m, keys, value) ==
    LET key == Head(keys)
    IN  IF Len(keys) = 1
        THEN [m |-> MapInsert(m, key, StringValue(value)), failed |-> FALSE]
        ELSE LET m1 == OrInsertEmpty(m, key)
             IN  IF m1[key].tag = "SysctlConfig"
                 THEN LET r == InsertWalk(m1[key].m, Tail(keys), value)
                      IN  [m |-> MapInsert(m1, key, ConfigValue(r.m)),
                           failed |-> r.failed]
                 ELSE [m |-> m1, failed |-> TRUE]

\* The two closures bound to error_or_ignore
ErrorOrIgnore(ignore) == IF ignore THEN "Ok" ELSE "Err"

\* (variant: only `#` starts a comment)
IsHashLine(l) == StartsWith(l, <<"#">>)

\* The comment test of insert_entry_of_line

IsCommentLine(l) == StartsWith(l, <<"#">>) \/ StartsWith(l, <<";">>)

\* The key test of insert_entry_of_line
KeyValueInvalid(key, value) ==
    key = EmptyStr \/ value = EmptyStr \/ Contains(key, " ")

\* insert_entry_of_line(map, line): the map afterwards and Ok or Err
insert_entry_of_line(m, l) ==
    IF l = EmptyStr THEN [m |-> m, res |-> "Ok"]
    ELSE IF IsCommentLine(l) THEN [m |-> m, res |-> "Ok"]
    ELSE
      LET ignore == StartsWith(l, <<"-">>)
          rest   == IF ignore THEN Tail(l) ELSE l
          parts  == SplitN2(rest, <<"=">>)
      IN  IF Len(parts) # 2 THEN [m |-> m, res |-> ErrorOrIgnore(ignore)]
          ELSE
            LET key   == Trim(parts[1])
                value == Trim(parts[2])
            IN  IF KeyValueInvalid(key, value)
                THEN [m |-> m, res |-> ErrorOrIgnore(ignore)]
                ELSE
                  LET w == InsertWalk(m, Split(key, "."), value)
                  IN  [m |-> w.m,
                       res |-> IF w.failed THEN ErrorOrIgnore(ignore) ELSE "Ok"]

----------------------------------------------------------------------------
(* SysctlConfigType and the schema loader *)

TypeNames ==
    [int    |-> <<"i", "n", "t">>,
     float  |-> <<"f", "l", "o", "a", "t">>,
     string |-> <<"s", "t", "r", "i", "n", "g">>,
     bool   |-> <<"b", "o", "o", "l">>]

\* SysctlConfigType::from_string: the type, or "Err" for `_ => Err(unknown type)`
from_string(s) ==
    IF s = TypeNames.int THEN "Int"
    ELSE IF s = TypeNames.float THEN "Float"
    ELSE IF s = TypeNames.string THEN "String"
    ELSE IF s = TypeNames.bool THEN "Bool"
    ELSE "Err"

\* SysctlConfigSchema::new: from_string(&typ).unwrap() panics on Err
SchemaNew(key, typ) ==
    LET t == from_string(typ)
    IN  IF t = "Err"
        THEN [res |-> "Panic"]
        ELSE [res |-> "Ok", elem |-> [key |-> key, typ |-> t]]

\* insert_schema_of_line(schema, line): the schema afterwards and Ok, Err or Panic
insert_schema_of_line(sch, l) ==
    IF l = EmptyStr THEN [schema |-> sch, res |-> "Ok"]
    ELSE
      LET parts == SplitN2(l, <<"-", ">">>)
      IN  IF Len(parts) # 2 THEN [schema |-> sch, res |-> "Err"]
          ELSE
            LET key   == Trim(parts[1])
                value == Trim(parts[2])
                e     == SchemaNew(key, value)
            IN  IF e.res = "Panic" THEN [schema |-> sch, res |-> "Panic"]
                ELSE [schema |-> Append(sch, e.elem), res |-> "Ok"]

----------------------------------------------------------------------------
(* The leaf parsers used by validate: str::parse::<i64> and str::parse::<f64> *)

Digits == {"0", "1", "2", "3", "4", "5", "6", "7", "8", "9"}

IsDigit(c) == c \in Digits

AllDigits(s) == \A i \in 1..Len(s) : IsDigit(s[i])

DigitVal(c) ==
    CASE c = "0" -> 0 [] c = "1" -> 1 [] c = "2" -> 2 [] c = "3" -> 3
      [] c = "4" -> 4 [] c = "5" -> 5 [] c = "6" -> 6 [] c = "7" -> 7
      [] c = "8" -> 8 [] c = "9" -> 9

\* i64::MAX = 9223372036854775807 and the magnitude of i64::MIN, digit by digit
I64MaxDigits ==
    <<"9", "2", "2", "3", "3", "7", "2", "0", "3", "6", "8", "5", "4", "7", "7",
      "5", "8", "0", "7">>
I64MinDigits ==
    <<"9", "2", "2", "3", "3", "7", "2", "0", "3", "6", "8", "5", "4", "7", "7",
      "5", "8", "0", "8">>

RECURSIVE StripZeros(_)
StripZeros(s) ==
    IF s # <<>> /\ Head(s) = "0" THEN StripZeros(Tail(s)) ELSE s

\* a <= b for digit strings of the same length
RECURSIVE DigitsLeq(_, _)
DigitsLeq(a, b) ==
    IF a = <<>> THEN TRUE
    ELSE IF DigitVal(Head(a)) < DigitVal(Head(b)) THEN TRUE
    ELSE IF DigitVal(Head(a)) > DigitVal(Head(b)) THEN FALSE
    ELSE DigitsLeq(Tail(a), Tail(b))

\* The checked_mul / checked_add (checked_sub) accumulation does not overflow
\* exactly when the magnitude is at most the limit
FitsIn(digits, limit) ==
    LET d == StripZeros(digits)
    IN  \/ Len(d) < Len(limit)
        \/ Len(d) = Len(limit) /\ DigitsLeq(d, limit)

\* (variant: no overflow check)
ParseI64Unchecked(s) ==
    /\ s # <<>>
    /\ LET signed == Head(s) \in {"+", "-"}
           digits == IF signed THEN Tail(s) ELSE s
       IN  digits # <<>> /\ AllDigits(digits)

\* v.parse::<i64>().is_ok()
ParseI64Ok(s) ==
    /\ s # <<>>
    /\ LET signed == Head(s) \in {"+", "-"}
           digits == IF signed THEN Tail(s) ELSE s
       IN  /\ digits # <<>>
           /\ AllDigits(digits)
           /\ FitsIn(digits, IF Head(s) = "-" THEN I64MinDigits ELSE I64MaxDigits)

\* u8::to_ascii_lowercase, on the letters of the model
Lower(c) ==
    CASE c = "N" -> "n" [] c = "A" -> "a" [] c = "I" -> "i" [] c = "F" -> "f"
      [] c = "T" -> "t" [] c = "Y" -> "y" [] c = "E" -> "e" [] OTHER -> c

LowerStr(s) == [i \in 1..Len(s) |-> Lower(s[i])]

\* number of leading digits of s
RECURSIVE DigitRun(_)
DigitRun(s) ==
    IF s # <<>> /\ IsDigit(Head(s)) THEN 1 + DigitRun(Tail(s)) ELSE 0

Drop(s, n) == SubSeq(s, n + 1, Len(s))

\* dec2flt parse_number: digits [ '.' digits ] with at least one digit, then an
\* optional exponent e|E [+|-] digit+, and nothing left over
IsDecimalNumber(s) ==
    LET n1    == DigitRun(s)
        r1    == Drop(s, n1)
        dot   == r1 # <<>> /\ Head(r1) = "."
        r2    == IF dot THEN Tail(r1) ELSE r1
        n2    == IF dot THEN DigitRun(r2) ELSE 0
        r3    == Drop(r2, n2)
        hasE  == r3 # <<>> /\ Lower(Head(r3)) = "e"
        r4    == IF hasE THEN Tail(r3) ELSE r3
        esign == hasE /\ r4 # <<>> /\ Head(r4) \in {"+", "-"}
        r5    == IF esign THEN Tail(r4) ELSE r4
    IN  /\ n1 + n2 > 0
        /\ IF hasE THEN r5 # <<>> /\ AllDigits(r5) ELSE r3 = <<>>

\* dec2flt parse_inf_nan: case-insensitive nan, inf, infinity
IsInfNan(s) ==
    LowerStr(s) \in {<<"n", "a", "n">>, <<"i", "n", "f">>,
                     <<"i", "n", "f", "i", "n", "i", "t", "y">>}

\* v.parse::<f64>().is_ok()
ParseF64Ok(s) ==
    /\ s # <<>>
    /\ LET rest == IF Head(s) \in {"+", "-"} THEN Tail(s) ELSE s
       IN  rest # <<>> /\ (IsDecimalNumber(rest) \/ IsInfNan(rest))

----------------------------------------------------------------------------
(* validate *)

\* insert_key(m, prev_key, set): the dotted names of the leaves below m
RECURSIVE insert_key(_, _)
insert_key(m, prev_key) ==
    UNION { LET key == IF prev_key = EmptyStr THEN k ELSE Dotted(prev_key, k)
            IN  IF m[k].tag = "SysctlConfig"
                THEN insert_key(m[k].m, key)
                ELSE {key}
          : k \in DOMAIN m }

get_all_keys(m) == insert_key(m, EmptyStr)

\* The surplus check: every schema key removed from get_all_keys
SurplusKeys(sch, m) == get_all_keys(m) \ {sch[i].key : i \in 1..Len(sch)}

\* The inner loop of validate over the segments of a schema key: Ok(map.get(..))
\* or the Err of the failing intermediate segment
RECURSIVE ResolveValue(_, _)
ResolveValue(m, keys) ==
    LET key == Head(keys)
    IN  IF Len(keys) = 1
        THEN IF key \in DOMAIN m
             THEN [tag |-> "Ok", some |-> TRUE, value |-> m[key]]
             ELSE [tag |-> "Ok", some |-> FALSE]
        ELSE IF key \notin DOMAIN m
             THEN [tag |-> "Err", kind |-> "not found", key |-> key]
             ELSE IF m[key].tag = "SysctlConfig"
                  THEN ResolveValue(m[key].m, Tail(keys))
                  ELSE [tag |-> "Err", kind |-> "invalid value", key |-> key]

\* The leaf test of one arm of `match typ`
LeafOk(typ, s) ==
    CASE typ = "Int"   -> ParseI64Ok(s)
      [] typ = "Float" -> ParseF64Ok(s)
      [] typ = "Bool"  -> s = <<"t", "r", "u", "e">> \/ s = <<"f", "a", "l", "s", "e">>

TypeText(typ) ==
    CASE typ = "Int" -> "int" [] typ = "Float" -> "float" [] typ = "Bool" -> "bool"

\* `match typ { ... }` on the resolved value: "Ok" or the Err it returns
CheckType(key, typ, value) ==
    IF typ = "String" THEN [tag |-> "Ok"]
    ELSE IF value.tag = "String"
         THEN IF LeafOk(typ, value.s) THEN [tag |-> "Ok"]
              ELSE [tag |-> "Err", kind |-> "invalid value", key |-> key,
                    value |-> value.s, type |-> TypeText(typ)]
         ELSE [tag |-> "Err", kind |-> "invalid value", key |-> key,
               type |-> TypeText(typ)]

\* (variant: an absent final segment is passed over)
CheckEntryLenient(e, m) ==
    LET v == ResolveValue(m, Split(e.key, "."))
    IN  IF v.tag = "Err" THEN v
        ELSE IF ~v.some THEN [tag |-> "Ok"]
             ELSE CheckType(e.key, e.typ, v.value)

\* One iteration of `for schema in self.schema.iter()`
CheckEntry(e, m) ==
    LET v == ResolveValue(m, Split(e.key, "."))
    IN  IF v.tag = "Err" THEN v
        ELSE IF ~v.some
             THEN [tag |-> "Err", kind |-> "key not found", key |-> e.key]
             ELSE CheckType(e.key, e.typ, v.value)

\* The second loop of validate, from entry i on: the first Err, or Ok
RECURSIVE CheckEntries(_, _, _)
CheckEntries(sch, m, i) ==
    IF i > Len(sch) THEN [tag |-> "Ok"]
    ELSE LET r == CheckEntry(sch[i], m)
         IN  IF r.tag = "Err" THEN r ELSE CheckEntries(sch, m, i + 1)

\* validate(&self, m)
validate(sch, m) ==
    LET keys == SurplusKeys(sch, m)
    IN  IF keys # {}
        THEN [tag |-> "Err", kind |-> "surplus keys", keys |-> keys]
        ELSE CheckEntries(sch, m, 1)

----------------------------------------------------------------------------
(* The input documents *)

\* All sequences over S of length 1..n
RECURSIVE SeqsUpTo(_, _)
SeqsUpTo(S, n) ==
    IF n = 0 THEN {}
    ELSE LET shorter == SeqsUpTo(S, n - 1)
         IN  {<<x>> : x \in S} \cup shorter
             \cup {<<x>> \o t : x \in S, t \in shorter}

\* All strings over the characters S of length 0..n
StringsUpTo(S, n) == {<<>>} \cup SeqsUpTo(S, n)

RECURSIVE Join(_)
Join(segs) ==
    IF Len(segs) = 1 THEN segs[1] ELSE Dotted(segs[1], Join(Tail(segs)))

Segments == {<<"a">>, <<"b">>}

\* n times the segment a
RECURSIVE Chain(_)
Chain(n) == IF n = 0 THEN <<>> ELSE <<(<<"a">>)>> \o Chain(n - 1)

\* Dotted keys of 1..MaxDepth segments (a, b, a.a, a.b, a.a.a, a.a.b, ...), keys
\* with an empty segment, with interior whitespace, and one starting with #
KeyTexts ==
    {Join(Chain(d) \o <<s>>) : d \in 0..(MaxDepth - 1), s \in Segments}
    \cup {<<".", "a">>, <<"a", ".">>, <<"a", ".", ".", "b">>, <<".">>,
          <<"a", " ", "b">>, <<"a", "\t", "b">>, <<"#", "a">>}

ValTexts == {<<"1">>, <<"2">>}

Prefixes == {<<>>, <<"-">>}

EntryLines ==
    {p \o k \o <<"=">> \o v : p \in Prefixes, k \in KeyTexts, v \in ValTexts}

PaddedLines ==
    {p \o <<" ">> \o k \o <<"\t", "=", " ">> \o v \o <<" ">> :
        p \in Prefixes,
        k \in {<<"a">>, <<"a", ".", "b">>, <<"a", ".", "a", ".", "b">>, <<"#", "a">>},
        v \in ValTexts}

MalformedLines ==
    {p \o b : p \in Prefixes,
              b \in {<<"a">>, <<"=", "1">>, <<" ", "=", "1">>, <<"a", "=">>,
                     <<"a", "=", " ">>, <<" ">>, <<"a", "=", "1", "=", "2">>}}

InertLines ==
    {<<>>, <<"#">>, <<";">>, <<"#", "a", "=", "1">>, <<";", "a", "=", "1">>,
     <<"#", "-", "a">>, <<";", " ", "=">>}

Lines == EntryLines \cup PaddedLines \cup MalformedLines \cup InertLines

----------------------------------------------------------------------------
(* load_sysctl_from_reader: one step per line of the reader *)

NoCall == [tag |-> "None"]

NoResult == [tag |-> "None"]

Init ==
    /\ pc = "config"
    /\ schema = <<>>
    /\ map = EmptyConfig
    /\ prev = EmptyConfig
    /\ line = EmptyStr
    /\ nread = 0
    /\ result = NoResult
    /\ doc = <<>>
    /\ kept = NoCall
    /\ ncalls = 0

\* One iteration of `for line in reader.lines()`: insert_entry_of_line(&mut map, line)?
ProcessLine(l) ==
    /\ pc = "config"
    /\ LET r == insert_entry_of_line(map, l)
       IN  /\ prev' = map
           /\ line' = l
           /\ nread' = nread + 1
           /\ map' = r.m
           /\ IF r.res = "Err"
              THEN /\ pc' = "done"
                   /\ result' = [tag |-> "Err", err |-> [kind |-> "invalid line"]]
              ELSE /\ pc' = "config"
                   /\ result' = result
    /\ UNCHANGED <<schema, kept, ncalls>>

\* The reader yields one more line
ReadLine(l) == nread < MaxLines /\ ProcessLine(l)

\* The reader is exhausted: Ok(map)
EndOfInput ==
    /\ pc = "config"
    /\ pc' = "done"
    /\ result' = [tag |-> "Ok", map |-> map]
    /\ UNCHANGED <<schema, map, prev, line, nread, doc, kept, ncalls>>

Next ==
    \/ \E l \in Lines : ReadLine(l) /\ UNCHANGED doc
    \/ EndOfInput

Spec == Init /\ [][Next]_vars

----------------------------------------------------------------------------
(* load_sysctl_from_reader on documents that assign a key more than once *)

RepeatLines ==
    {<<"a", ".", "b", "=", "1">>, <<"a", ".", "b", " ", "=", " ", "2">>,
     <<"-", "a", ".", "b", "=", "1">>, <<"a", "=", "3">>, <<"b", "=", "1">>}

\* One iteration of the loop, the document read so far being recorded
ReadRecordedLine(l) ==
    /\ nread < MaxDocLines
    /\ ProcessLine(l)
    /\ doc' = Append(doc, l)

NextRepeat ==
    \/ \E l \in RepeatLines : ReadRecordedLine(l)
    \/ EndOfInput

SpecRepeat == Init /\ [][NextRepeat]_vars

----------------------------------------------------------------------------
(* SysctlConfigLoader: new(schema document), then load_sysctl(config document) *)

\* The schema documents: `key -> type` for every type, a padded line, a blank
\* line, and lines with no `->`, an unknown, a differently cased, an empty type
SchemaKeyTexts == {<<"a">>, <<"a", ".", "b">>, <<".", "a">>}

SchemaLines ==
    {k \o <<"-", ">">> \o TypeNames[t] :
        k \in SchemaKeyTexts, t \in {"int", "float", "string", "bool"}}
    \cup {<<>>,
          <<" ", "a", " ", "-", ">", " ">> \o TypeNames.int \o <<" ">>,
          <<"a">>,
          <<"a", "-", ">">>,
          <<"a", "-", ">", "I", "n", "t">>,
          <<"a", "-", ">", "i", "n", "t", "-", ">", "i", "n", "t">>}

\* The config documents validated against them
LoaderLines ==
    {<<"a", "=", "1">>, <<"a", "=", "x">>, <<"a", ".", "b", "=", "1">>,
     <<".", "a", "=", "1">>}

InitLoader ==
    /\ pc = "schema"
    /\ schema = <<>>
    /\ map = EmptyConfig
    /\ prev = EmptyConfig
    /\ line = EmptyStr
    /\ nread = 0
    /\ result = NoResult
    /\ doc = <<>>
    /\ kept = NoCall
    /\ ncalls = 0

\* One iteration of the loop of load_sysctl_schema_from_reader, within
\* SysctlConfigLoader::new, which unwraps the result of the load
ReadSchemaLine(l) ==
    /\ pc = "schema"
    /\ nread < MaxSchemaLines
    /\ LET r == insert_schema_of_line(schema, l)
       IN  /\ line' = l
           /\ nread' = nread + 1
           /\ schema' = r.schema
           /\ IF r.res = "Ok"
              THEN /\ pc' = "schema"
                   /\ result' = result
              ELSE /\ pc' = "done"
                   /\ result' =
                        [tag |-> "Panic",
                         at  |-> IF r.res = "Panic" THEN "SysctlConfigSchema::new"
                                 ELSE "SysctlConfigLoader::new"]
    /\ UNCHANGED <<map, prev, doc, kept, ncalls>>

\* The schema reader is exhausted: new returns the loader, and the caller calls
\* load_sysctl, which opens the config document with a new map
SchemaEnd ==
    /\ pc = "schema"
    /\ pc' = "config"
    /\ nread' = 0
    /\ map' = EmptyConfig
    /\ prev' = EmptyConfig
    /\ ncalls' = 1
    /\ UNCHANGED <<schema, line, result, doc, kept>>

\* The config reader is exhausted: load_sysctl validates the map and returns
\* Ok(result) or the Err of validate
LoadSysctlEnd ==
    /\ pc = "config"
    /\ pc' = "done"
    /\ LET v == validate(schema, map)
       IN  result' = IF v.tag = "Ok" THEN [tag |-> "Ok", map |-> map]
                     ELSE [tag |-> "Err", err |-> v]
    /\ UNCHANGED <<schema, map, prev, line, nread, doc, kept, ncalls>>

NextLoader ==
    \/ \E l \in SchemaLines : ReadSchemaLine(l)
    \/ SchemaEnd
    \/ \E l \in LoaderLines : ReadLine(l) /\ UNCHANGED doc
    \/ LoadSysctlEnd

SpecLoader == InitLoader /\ [][NextLoader]_vars

----------------------------------------------------------------------------
(* The type check of validate on one leaf: schema `a -> type`, config `a = text` *)

TypeChars == {"1", "-", "+", ".", "e"}

LeafTexts ==
    StringsUpTo(TypeChars, MaxValLen)
    \cup {<<"t", "r", "u", "e">>, <<"f", "a", "l", "s", "e">>, <<"T", "r", "u", "e">>,
          <<"y", "e", "s">>, <<"a", "b", "c">>, <<"0">>, <<"2">>, <<"4", "2">>,
          <<"4", ".", "2">>, <<"1", ".", "0">>, <<"0", "0", "7">>, <<"1", "E", "5">>,
          <<"n", "a", "n">>, <<"N", "a", "N">>, <<"i", "n", "f">>,
          <<"-", "i", "n", "f">>,
          <<"i", "n", "f", "i", "n", "i", "t", "y">>,
          I64MaxDigits, I64MinDigits, <<"+">> \o I64MaxDigits,
          <<"-">> \o I64MinDigits, <<"-">> \o I64MaxDigits,
          <<"-", "9", "2", "2", "3", "3", "7", "2", "0", "3", "6", "8", "5", "4",
            "7", "7", "5", "8", "0", "9">>,
          <<"1", "0", "0", "0", "0", "0", "0", "0", "0", "0", "0", "0", "0", "0",
            "0", "0", "0", "0", "0", "0">>,
          <<"0", "0">> \o I64MaxDigits}

TypeSchemaLines ==
    {<<"a", "-", ">">> \o TypeNames[t] : t \in {"int", "float", "string", "bool"}}

TypeConfigLines == {<<"a", "=">> \o v : v \in LeafTexts}

NextType ==
    \/ \E l \in TypeSchemaLines : nread = 0 /\ ReadSchemaLine(l)
    \/ SchemaEnd
    \/ \E l \in TypeConfigLines : nread = 0 /\ ReadLine(l) /\ UNCHANGED doc
    \/ LoadSysctlEnd

SpecType == InitLoader /\ [][NextType]_vars

----------------------------------------------------------------------------
(* One SysctlConfigLoader reused for several load_sysctl calls *)

ReuseSchemaLines ==
    {<<"a", "-", ">">> \o TypeNames[t] : t \in {"int", "string"}}

ReuseLines ==
    {<<"a", "=", "1">>, <<"a", "=", "x">>, <<"a", ".", "b", "=", "1">>}

\* A load_sysctl call as the caller may remember it
CallRecord == [tag |-> "Call", doc |-> doc, schema |-> schema, result |-> result]

\* The call that would carry the previous call's map into the next one
LoadSysctlKeepMap ==
    /\ pc = "done"
    /\ result.tag \in {"Ok", "Err"}
    /\ ncalls < MaxCalls
    /\ pc' = "config"
    /\ nread' = 0
    /\ map' = map
    /\ prev' = map
    /\ result' = NoResult
    /\ doc' = <<>>
    /\ ncalls' = ncalls + 1
    /\ kept' \in (IF kept = NoCall THEN {kept, CallRecord} ELSE {kept})
    /\ UNCHANGED <<schema, line>>

\* load_sysctl has returned Ok or Err and the caller calls it again on the same
\* loader (&self): a new reader, a new map, the schema list as it was.  The
\* caller may remember the call that just returned.
LoadSysctlAgain ==
    /\ pc = "done"
    /\ result.tag \in {"Ok", "Err"}
    /\ ncalls < MaxCalls
    /\ pc' = "config"
    /\ nread' = 0
    /\ map' = EmptyConfig
    /\ prev' = EmptyConfig
    /\ result' = NoResult
    /\ doc' = <<>>
    /\ ncalls' = ncalls + 1
    /\ kept' \in (IF kept = NoCall THEN {kept, CallRecord} ELSE {kept})
    /\ UNCHANGED <<schema, line>>

NextReuse ==
    \/ \E l \in ReuseSchemaLines : ReadSchemaLine(l)
    \/ SchemaEnd
    \/ \E l \in ReuseLines : ReadLine(l) /\ doc' = Append(doc, l)
    \/ LoadSysctlEnd
    \/ LoadSysctlAgain

SpecReuse == InitLoader /\ [][NextReuse]_vars

----------------------------------------------------------------------------
(* Reading a tree, for the properties below *)

Absent == [tag |-> "Absent"]

\* get(tree, path): the node reached by walking the segments, or Absent
RECURSIVE NodeAt(_, _)
NodeAt(m, segs) ==
    IF Head(segs) \notin DOMAIN m THEN Absent
    ELSE IF Len(segs) = 1 THEN m[Head(segs)]
    ELSE IF m[Head(segs)].tag = "SysctlConfig"
         THEN NodeAt(m[Head(segs)].m, Tail(segs))
         ELSE Absent

\* The segment lists of all nodes of a tree
RECURSIVE Paths(_)
Paths(m) ==
    UNION { {<<k>>} \cup (IF m[k].tag = "SysctlConfig"
                          THEN {<<k>> \o p : p \in Paths(m[k].m)}
                          ELSE {})
          : k \in DOMAIN m }

LeafPaths(m) == {p \in Paths(m) : NodeAt(m, p).tag = "String"}

\* The segments of a dotted key: the texts between consecutive dots
SegmentsOf(s) ==
    LET cuts == {0, Len(s) + 1} \cup {i \in 1..Len(s) : s[i] = "."}
        Nth(j) == CHOOSE i \in cuts : Cardinality({k \in cuts : k < i}) = j
    IN  [j \in 1..(Cardinality(cuts) - 1) |-> SubSeq(s, Nth(j - 1) + 1, Nth(j) - 1)]

NoEmptySegment(segs) == \A i \in 1..Len(segs) : segs[i] # <<>>
PlainKey(segs) == \A i \in 1..Len(segs) : segs[i] \in Segments
PlainTree(m) == \A p \in Paths(m) : PlainKey(p)

ProperPrefixes(segs) == {SubSeq(segs, 1, i) : i \in 1..(Len(segs) - 1)}

\* A line as the format describes it: an optional leading `-`, then the key up
\* to the first `=`, then the value, both trimmed
HasPrefix(l) == l # <<>> /\ Head(l) = "-"
Body(l) == IF HasPrefix(l) THEN Tail(l) ELSE l
HasDelimiter(l) == Contains(Body(l), "=")
KeyOf(l) == Trim(SplitN2(Body(l), <<"=">>)[1])
ValueOf(l) == Trim(SplitN2(Body(l), <<"=">>)[2])
HasWhitespace(s) == \E i \in 1..Len(s) : IsWhitespace(s[i])
IsInert(l) == l = <<>> \/ Head(l) \in {"#", ";"}

\* The line just processed was handed to insert_entry_of_line
LineProcessed == nread > 0 /\ pc \in {"config", "done"} /\ result.tag # "Ok"
LineFailed == pc = "done" /\ result.tag = "Err"
LineSkipped == pc = "config" /\ result.tag = "None" /\ map = prev

----------------------------------------------------------------------------
(* C1 *)

\* C1: once a path exists as a Leaf or as a Subtree, no line turns it into the
\* other kind unless that line fails (stated for the trees whose segments are
\* plain names).
C1_KindNeverChanges ==
    LineProcessed =>
        \A p \in Paths(prev) :
            (/\ PlainTree(prev)
             /\ NodeAt(map, p) # Absent
             /\ NodeAt(map, p).tag # NodeAt(prev, p).tag)
                => LineFailed

----------------------------------------------------------------------------
(* C3 *)

\* The malformed shapes: no `=`, key empty after trim, value empty after trim,
\* whitespace in the key
IsMalformed(l) ==
    \/ ~HasDelimiter(l)
    \/ KeyOf(l) = <<>>
    \/ ValueOf(l) = <<>>
    \/ HasWhitespace(KeyOf(l))

\* C3: a malformed line with the `-` prefix is skipped and the load goes on;
\* without the prefix it fails the whole load and no tree is returned.
C3_MalformedLinePolicy ==
    (LineProcessed /\ ~IsInert(line) /\ IsMalformed(line)) =>
        IF HasPrefix(line) THEN LineSkipped
        ELSE LineFailed /\ "map" \notin DOMAIN result

----------------------------------------------------------------------------
(* C4 *)

\* The line is an entry whose key walks through a segment that is a Leaf
LeafIsAncestor(m, l) ==
    /\ ~IsInert(l)
    /\ HasDelimiter(l)
    /\ ~KeyValueInvalid(KeyOf(l), ValueOf(l))
    /\ \E p \in ProperPrefixes(SegmentsOf(KeyOf(l))) : NodeAt(m, p).tag = "String"

\* C4: a line whose key walks through a Leaf fails the load, unless it has the
\* `-` prefix: then it is skipped and the tree is exactly the tree before it.
C4_LeafAncestorConflict ==
    (LineProcessed /\ LeafIsAncestor(prev, line)) =>
        IF HasPrefix(line) THEN LineSkipped ELSE LineFailed

C4_Witness ==
    /\ LineProcessed
    /\ nread = 2
    /\ PlainTree(prev)
    /\ LeafIsAncestor(prev, line)
    /\ HasPrefix(line)
    /\ PlainKey(SegmentsOf(KeyOf(line)))
    /\ \E p \in ProperPrefixes(SegmentsOf(KeyOf(line))) :
          Len(p) = 2 /\ NodeAt(prev, p).tag = "String"
    /\ LineSkipped

----------------------------------------------------------------------------
(* C5 *)

\* The line is `key = value` with a non-empty key without whitespace and a
\* non-empty value
WellFormed(l) ==
    /\ HasDelimiter(l)
    /\ KeyOf(l) # <<>>
    /\ ValueOf(l) # <<>>
    /\ ~HasWhitespace(KeyOf(l))

\* The tree holds exactly one leaf, at the path of the key, with the value, and
\* every proper prefix of the path is a Subtree
OneLeafAt(m, key, value) ==
    LET segs == SegmentsOf(key)
    IN  /\ LeafPaths(m) = {segs}
        /\ NodeAt(m, segs) = StringValue(value)
        /\ \A p \in ProperPrefixes(segs) : NodeAt(m, p).tag = "SysctlConfig"

FirstLineProcessed == LineProcessed /\ nread = 1 /\ prev = EmptyConfig

\* C5: every well-formed entry line (`key = value`, optionally with the `-`
\* prefix; a line starting with `#` or `;` is a comment, not an entry) parsed
\* into an empty tree gives exactly one leaf, at the path of the key, holding
\* the trimmed value, and every proper prefix of the path is a Subtree.
C5_WellFormedInsertion ==
    (FirstLineProcessed /\ WellFormed(line) /\ ~IsInert(line)) =>
        ~LineFailed /\ OneLeafAt(map, KeyOf(line), ValueOf(line))

C5_Witness ==
    /\ FirstLineProcessed
    /\ WellFormed(line)
    /\ ~IsInert(line)
    /\ ~HasPrefix(line)
    /\ PlainKey(SegmentsOf(KeyOf(line)))
    /\ Len(SegmentsOf(KeyOf(line))) = 3
    /\ Len(line) > Len(KeyOf(line)) + Len(ValueOf(line)) + 1
    /\ OneLeafAt(map, KeyOf(line), ValueOf(line))

----------------------------------------------------------------------------
(* C10 *)

\* C10: a line starting with `#` or `;` and an empty line leave the tree as it
\* was and do not fail the load, wherever they stand.
C10_InertLines ==
    (LineProcessed /\ IsInert(line)) => LineSkipped

C10_Witness ==
    /\ LineProcessed
    /\ IsInert(line)
    /\ nread = 2
    /\ prev # EmptyConfig
    /\ PlainTree(prev)
    /\ line # <<>>
    /\ Head(line) = ";"
    /\ HasDelimiter(line)
    /\ LineSkipped

----------------------------------------------------------------------------
(* Reading the outcome of load_sysctl, for the properties of validate *)

\* load_sysctl has run validate on the map and returned
Validated ==
    /\ pc = "done"
    /\ result.tag \in {"Ok", "Err"}
    /\ result.tag = "Err" => result.err.kind # "invalid line"

Entries == 1..Len(schema)
DeclaredKeys == {schema[i].key : i \in Entries}

\* The leaves whose dotted path (segments joined with `.`) no schema entry declares
UndeclaredLeaves == {p \in LeafPaths(map) : Join(p) \notin DeclaredKeys}

\* The node a schema entry's dotted path resolves to
EntryNode(i) == NodeAt(map, SegmentsOf(schema[i].key))
Unresolved(i) == EntryNode(i) = Absent

----------------------------------------------------------------------------
(* C2 *)

\* C2: validation succeeds only if every leaf of the tree sits at a dotted path
\* that some schema entry declares.
C2_WholeTreeExactness ==
    (Validated /\ result.tag = "Ok") => UndeclaredLeaves = {}

----------------------------------------------------------------------------
(* C6 *)

\* C6: a schema entry, whatever its type, whose path resolves to a Subtree makes
\* validation fail.
C6_SubtreeIsTypeMismatch ==
    (Validated /\ \E i \in Entries : EntryNode(i).tag = "SysctlConfig") =>
        result.tag = "Err"

----------------------------------------------------------------------------
(* C7 *)

\* The schema line has a `->` and a type name that is none of the four literals
UnknownTypeLine(l) ==
    /\ Find(l, <<"-", ">">>) # 0
    /\ Trim(SplitN2(l, <<"-", ">">>)[2]) \notin
           {TypeNames.int, TypeNames.float, TypeNames.string, TypeNames.bool}

\* C7: a schema line with an unknown type name ends the schema load with an
\* error result handed to the caller, not with a crash.
C7_UnknownTypeIsError ==
    UnknownTypeLine(line) =>
        /\ result.tag = "Err"
        /\ result.err.kind = "unknown type"

----------------------------------------------------------------------------
(* C8 *)

\* What validate reports for an unresolved dotted key: the key itself when its
\* final segment is absent, the offending intermediate segment otherwise
MissingError(m, key) ==
    LET segs == SegmentsOf(key)
        j    == CHOOSE i \in 1..Len(segs) :
                    /\ NodeAt(m, SubSeq(segs, 1, i)) = Absent
                    /\ \A k \in 1..(i - 1) : NodeAt(m, SubSeq(segs, 1, k)) # Absent
    IN  IF j > 1 /\ NodeAt(m, SubSeq(segs, 1, j - 1)).tag = "String"
        THEN [tag |-> "Err", kind |-> "invalid value", key |-> segs[j - 1]]
        ELSE IF j = Len(segs)
             THEN [tag |-> "Err", kind |-> "key not found", key |-> key]
             ELSE [tag |-> "Err", kind |-> "not found", key |-> segs[j]]

\* No check that validate makes before entry i fails
FirstToFail(i) ==
    /\ SurplusKeys(schema, map) = {}
    /\ \A k \in 1..(i - 1) : CheckEntry(schema[k], map).tag = "Ok"

\* C8 as stated: with no surplus leaves, every unresolved schema entry makes
\* validation fail with an error naming that entry's key (stated for the keys
\* of non-empty segments).
C8_MissingKeyNamed ==
    (Validated /\ UndeclaredLeaves = {}) =>
        \A i \in Entries :
            (Unresolved(i) /\ NoEmptySegment(SegmentsOf(schema[i].key))) =>
                /\ result.tag = "Err"
                /\ "key" \in DOMAIN result.err
                /\ result.err.key = schema[i].key

\* C8 amended: validation never succeeds while some schema entry is unresolved;
\* the error is that of the first failing check, and when that is an unresolved
\* entry it names the entry's key if the final segment is absent and the
\* offending intermediate segment if that one is absent or a Leaf.
C8_MissingKeyFails ==
    Validated =>
        \A i \in Entries :
            Unresolved(i) =>
                /\ result.tag = "Err"
                /\ FirstToFail(i) => result.err = MissingError(map, schema[i].key)

C8_Witness ==
    /\ Validated
    /\ UndeclaredLeaves = {}
    /\ map # EmptyConfig
    /\ \E i \in Entries :
          /\ i > 1
          /\ Unresolved(i)
          /\ FirstToFail(i)
          /\ result.err = MissingError(map, schema[i].key)
          /\ result.err.kind = "invalid value"

----------------------------------------------------------------------------
(* C9 *)

\* validate has checked the one leaf `a` against the one schema entry of `a`
LeafChecked ==
    /\ Validated
    /\ Len(schema) = 1
    /\ schema[1].key = <<"a">>
    /\ DOMAIN map = {<<"a">>}
    /\ map[<<"a">>].tag = "String"

CheckedLeaf == map[<<"a">>].s
CheckedType == schema[1].typ
LeafPasses == result.tag = "Ok"

Unsigned(s) == IF s # <<>> /\ s[1] \in {"+", "-"} THEN SubSeq(s, 2, Len(s)) ELSE s

\* a <= b as decimal numbers, both written with n digits
NumLeq(a, b, n) ==
    LET Pad(x) == [i \in 1..n |-> IF i <= n - Len(x) THEN "0" ELSE x[i - (n - Len(x))]]
        pa == Pad(a)
        pb == Pad(b)
    IN  \/ pa = pb
        \/ \E i \in 1..n : /\ \A j \in 1..(i - 1) : pa[j] = pb[j]
                           /\ DigitVal(pa[i]) < DigitVal(pb[i])

\* An integer literal whose value lies in [-2^63, 2^63 - 1]
IsI64Literal(s) ==
    LET d == Unsigned(s)
        n == IF Len(d) > Len(I64MaxDigits) THEN Len(d) ELSE Len(I64MaxDigits)
    IN  /\ d # <<>>
        /\ \A i \in 1..Len(d) : d[i] \in Digits
        /\ IF s[1] = "-" THEN NumLeq(d, I64MinDigits, n) ELSE NumLeq(d, I64MaxDigits, n)

\* A decimal number: digits with an optional fraction and an optional exponent
IsDecimalLiteral(s) ==
    LET d == Unsigned(s)
        AllIn(x, S) == \A i \in 1..Len(x) : x[i] \in S
    IN  \E a \in 0..Len(d) : \E b \in a..Len(d) :
            LET int  == SubSeq(d, 1, a)
                frac == SubSeq(d, a + 1, b)
                exp  == SubSeq(d, b + 1, Len(d))
            IN  /\ AllIn(int, Digits)
                /\ frac = <<>> \/ (frac[1] = "." /\ AllIn(Tail(frac), Digits))
                /\ Len(int) + Len(frac) > (IF frac = <<>> THEN 0 ELSE 1)
                /\ \/ exp = <<>>
                   \/ /\ exp[1] \in {"e", "E"}
                      /\ Unsigned(Tail(exp)) # <<>>
                      /\ AllIn(Unsigned(Tail(exp)), Digits)

\* The words inf, infinity and nan in any case
IsInfNanWord(s) ==
    LET d == Unsigned(s)
        Word(w) == /\ Len(d) = Len(w)
                   /\ \A i \in 1..Len(w) : d[i] \in w[i]
    IN  \/ Word(<<{"n", "N"}, {"a", "A"}, {"n", "N"}>>)
        \/ Word(<<{"i", "I"}, {"n", "N"}, {"f", "F"}>>)
        \/ Word(<<{"i", "I"}, {"n", "N"}, {"f", "F"}, {"i", "I"}, {"n", "N"},
                  {"i", "I"}, {"t", "T"}, {"y", "Y"}>>)

IsBoolLiteral(s) == s \in {<<"t", "r", "u", "e">>, <<"f", "a", "l", "s", "e">>}

\* C9 as stated: Int passes exactly the integer literals in the signed 64-bit
\* range, Bool exactly true and false, Float exactly the decimal numbers, and
\* String everything.
C9_TypeCheckReference ==
    LeafChecked =>
        (LeafPasses <=>
            CASE CheckedType = "Int"    -> IsI64Literal(CheckedLeaf)
              [] CheckedType = "Bool"   -> IsBoolLiteral(CheckedLeaf)
              [] CheckedType = "Float"  -> IsDecimalLiteral(CheckedLeaf)
              [] CheckedType = "String" -> TRUE)

\* C9 amended: as stated, except that Float also passes the words inf, infinity
\* and nan (in any case, with an optional sign).
C9_TypeCheckWithInfNan ==
    LeafChecked =>
        (LeafPasses <=>
            CASE CheckedType = "Int"    -> IsI64Literal(CheckedLeaf)
              [] CheckedType = "Bool"   -> IsBoolLiteral(CheckedLeaf)
              [] CheckedType = "Float"  -> \/ IsDecimalLiteral(CheckedLeaf)
                                           \/ IsInfNanWord(CheckedLeaf)
              [] CheckedType = "String" -> TRUE)

C9_Witness ==
    /\ LeafChecked
    /\ CheckedType = "Int"
    /\ CheckedLeaf = <<"-">> \o I64MinDigits
    /\ LeafPasses

----------------------------------------------------------------------------
(* C11: a reused loader gives the same answer for the same document *)

\* C11: on one loader, a load_sysctl call on a document an earlier call has
\* loaded returns what the earlier call returned (the same Err, or Ok with an
\* identical tree), whatever was loaded in between; the schema list is the one
\* the earlier call ran with; and the tree returned on success is the tree that
\* was handed to validate.
C11_RepeatableValidation ==
    /\ kept.tag = "Call" =>
          /\ schema = kept.schema
          /\ (pc = "done" /\ doc = kept.doc) => result = kept.result
    /\ (pc = "done" /\ ncalls > 0 /\ result.tag = "Ok") => result.map = map

\* The third call on a loader repeats a remembered document and passes with a
\* non-empty tree
C11_Witness ==
    /\ kept.tag = "Call"
    /\ ncalls = MaxCalls
    /\ pc = "done"
    /\ doc = kept.doc
    /\ Len(doc) = 1
    /\ result.tag = "Ok"
    /\ result.map # EmptyConfig

----------------------------------------------------------------------------
(* C12: whitespace in a key *)

\* The line just processed is an entry whose trimmed key holds a whitespace
\* character
WhitespaceKeyLine ==
    /\ LineProcessed
    /\ ~IsInert(line)
    /\ HasDelimiter(line)
    /\ HasWhitespace(KeyOf(line))

\* C12: a line whose trimmed key holds an interior whitespace character (space
\* or tab) fails when it has no `-` prefix and is skipped when it has one, and
\* no map key holding a whitespace character is ever in the tree.
C12_WhitespaceKeyRejected ==
    /\ WhitespaceKeyLine => IF HasPrefix(line) THEN LineSkipped ELSE LineFailed
    /\ \A p \in Paths(map) : \A i \in 1..Len(p) : ~HasWhitespace(p[i])

----------------------------------------------------------------------------
(* C13: empty key segments *)

\* C13: at every nesting level of a tree the parser returns, every map key is
\* a non-empty string.
C13_NoEmptySegmentInTree ==
    result.tag = "Ok" => \A p \in Paths(result.map) : NoEmptySegment(p)

----------------------------------------------------------------------------
(* C14: the order of the checks of validate *)

\* The check of schema entry i (resolution, then type) fails on the map
EntryFails(i) == CheckEntry(schema[i], map).tag = "Err"

\* Entry i is the earliest declared entry whose check fails
EarliestFailing(i) == EntryFails(i) /\ \A k \in 1..(i - 1) : ~EntryFails(k)

\* C14: validate reports the first failing check in a fixed order: a tree with
\* an undeclared leaf is reported as surplus keys, whatever the schema entries
\* would report; with no undeclared leaf, the error is that of the earliest
\* declared entry whose check fails.
C14_FailFastOrder ==
    Validated =>
        /\ UndeclaredLeaves # {} =>
              /\ result.tag = "Err"
              /\ result.err.kind = "surplus keys"
        /\ UndeclaredLeaves = {} =>
              \A i \in Entries :
                  EarliestFailing(i) =>
                      /\ result.tag = "Err"
                      /\ result.err = CheckEntry(schema[i], map)

----------------------------------------------------------------------------
(* C15: a leaf key assigned more than once *)

\* Line i of the document is an unprefixed entry line
Assigns(i) == ~IsInert(doc[i]) /\ ~HasPrefix(doc[i]) /\ WellFormed(doc[i])

\* Lines i < j assign the same key and no later line names that key
LastOfRepeated(i, j) ==
    /\ i < j
    /\ Assigns(i)
    /\ Assigns(j)
    /\ KeyOf(doc[i]) = KeyOf(doc[j])
    /\ \A n \in (j + 1)..Len(doc) :
           HasDelimiter(doc[n]) => KeyOf(doc[n]) # KeyOf(doc[j])

\* The line just processed assigns a key that is a Leaf of the tree before it
RepeatsLeaf ==
    /\ LineProcessed
    /\ ~IsInert(line)
    /\ WellFormed(line)
    /\ NodeAt(prev, SegmentsOf(KeyOf(line))).tag = "String"

\* C15: a line that assigns a key which is already a Leaf does not fail and
\* changes no other leaf; and in the tree returned for a document that assigns
\* a leaf key more than once, the leaf at that path holds the trimmed value of
\* the last line that assigned it.
C15_LastWriteWins ==
    /\ RepeatsLeaf =>
          /\ ~LineFailed
          /\ LeafPaths(map) = LeafPaths(prev)
          /\ \A p \in LeafPaths(prev) \ {SegmentsOf(KeyOf(line))} :
                 NodeAt(map, p) = NodeAt(prev, p)
    /\ (pc = "done" /\ result.tag = "Ok") =>
          \A i, j \in 1..Len(doc) :
              LastOfRepeated(i, j) =>
                  NodeAt(result.map, SegmentsOf(KeyOf(doc[j])))
                      = StringValue(ValueOf(doc[j]))

============================================================================
